---- MODULE Spec2Model ----
(***************************************************************************)
(* Deep-link activation coordinator of src-tauri/src/lib.rs:               *)
(* the PendingDeepLink store, the frontend_ready command, the              *)
(* single-instance callback with its detached retry thread, the setup      *)
(* closure (cold-start check, on_open_url, log plugin, global shortcut)    *)
(* and the shortcut toggle handler.                                        *)
(***************************************************************************)
EXTENDS Integers, Sequences, FiniteSets, TLC

\* ------------------------------------------------------------------ bounds
MaxReady == 2          \* frontend_ready invocations explored
MaxCallbacks == 2      \* single-instance, open-URL and shortcut callbacks explored
MaxFaults == 1         \* failing platform calls (emit, window, registration) per run
MaxStoreOps == 4       \* length of the store-operation sequences explored

\* --------------------------------------------------------------- constants
\* a prefix with one slash only
SchemeOneSlash == "promptvault:/"
\* the prefix tested by starts_with at lib.rs:36 and lib.rs:101
Scheme == "promptvault://"
\* the event name of every emit (lib.rs:44, 50, 54, 121)
EventName == "deep-link"

\* cfg!(debug_assertions) (lib.rs:84, 125): the debug build is modelled; the
\* release build skips register("promptvault") and the log plugin, which is
\* what the debug build does when both calls succeed
DebugBuild == TRUE

\* Option<String>: None is the empty sequence, Some(s) the one-element one
None == <<>>
Some(s) == <<s>>
IsSome(o) == Len(o) = 1
Unwrap(o) == o[1]

\* str::starts_with(prefix)
StartsWith(s, prefix) ==
    /\ Len(s) >= Len(prefix)
    /\ SubSeq(s, 1, Len(prefix)) = prefix

\* Vec::get(1) on an argument list (0-based index 1 is the 2nd element)
ArgGet1(args) == IF Len(args) >= 2 THEN Some(args[2]) ELSE None

\* <[T]>::first() on the URL list of an open-URL event
First(urls) == IF Len(urls) >= 1 THEN Some(urls[1]) ELSE None

\* ------------------------------------------------------------ input spaces
UrlA == "promptvault://open?id=42"
UrlB == "promptvault://b"
Strings == { UrlA, UrlB, Scheme, "promptvault:/x", "http://not-ours" }
\* those of them that begin with "promptvault://"
Urls == { UrlA, UrlB, Scheme }

\* argument lists of this process's own launch
ColdArgLists ==
    { <<"prog">>, <<"prog", UrlA>>, <<"prog", "promptvault:/x", UrlA>> }

\* argument lists of a second launch, forwarded by the single-instance guard
ForwardArgLists ==
    { <<"prog">>, <<"prog", UrlB>>, <<"prog", "http://not-ours", UrlB>> }

\* URL lists handed to the on_open_url callback by the platform, each URL
\* as Url::to_string() serialises it
OpenUrlLists ==
    { <<>>, <<UrlA, UrlB>>, <<"promptvault:/x", UrlA>> }

VARIABLES
    cliArgs,        \* std::env::args() of this process
    mainExists,     \* whether get_webview_window("main") finds a window
    setupPc,        \* position of the setup closure
    setupErrors,    \* the failures met by the setup closure so far
    pending,        \* contents of PendingDeepLink's Mutex<Option<String>>
    lockHolder,     \* which context holds the mutex guard
    lockPoisoned,   \* whether the mutex is poisoned
    storeTrace,     \* history of the operations applied to the store
    frPc,           \* position of each frontend_ready invocation
    frUrl,          \* the local `url` / return value of each invocation
    si,             \* one record per single-instance callback invocation
    opened,         \* one record per open-URL callback invocation
    listening,      \* whether the UI has attached its "deep-link" listener
    visible,        \* window-manager visibility of the main window
    lastToggle,     \* what the most recent shortcut trigger saw and did
    faults          \* number of platform calls that have failed so far

vars == << cliArgs, mainExists, setupPc, setupErrors, pending,
           lockHolder, lockPoisoned, storeTrace, frPc, frUrl, si, opened,
           listening, visible, lastToggle, faults >>

Calls == 1..MaxReady
NoHolder == <<"none", 0>>
SetupHolder == <<"setup", 0>>
CallHolder(c) == <<"frontend_ready", c>>

\* the process is running: setup has neither returned Err nor panicked
Alive == setupPc \notin {"failed", "panicked"}
\* a process whose contexts are served only while no retry thread sleeps
RunningUnlessRetrySleeps ==
    /\ setupPc = "done"
    /\ \A i \in DOMAIN si : si[i].retry \in {"none", "done"}
\* setup has returned Ok(()) (lib.rs:151) and run() serves the callbacks it
\* and the builder registered: single-instance, on_open_url, on_shortcut
Running == setupPc = "done"

\* the callbacks served so far: forwarded launches, open-URL events, triggers
CallbacksServed == Len(si) + Len(opened) + lastToggle.n

\* the results a fallible platform call can have (TRUE is Ok), and the
\* number of failures among some results
Outcomes == IF faults < MaxFaults THEN BOOLEAN ELSE {TRUE}
Failed(ok) == IF ok THEN 0 ELSE 1

\* ---------------------------------------------------------------- the store
\* a store that keeps the first value written until it is taken
StoreSetIfEmpty(p, url) == IF IsSome(p) THEN p ELSE Some(url)
\* *pending = Some(url)  (lib.rs:104)
StoreSet(p, url) == Some(url)
\* a take that reads the value and leaves it in place
StoreTakeKeep(p) == << p, p >>
\* pending.take()  (lib.rs:14): the pair <<returned value, new contents>>
StoreTake(p) == << p, None >>

\* no shortcut trigger has happened yet
NoToggle ==
    [n |-> 0, seen |-> "none", before |-> FALSE, ops |-> <<>>, after |-> FALSE]

Init ==
    /\ cliArgs \in ColdArgLists
    /\ mainExists \in BOOLEAN
    /\ setupPc = "register"
    /\ setupErrors = {}
    /\ pending = None
    /\ lockHolder = NoHolder
    /\ lockPoisoned = FALSE
    /\ storeTrace = <<>>
    /\ frPc = [c \in Calls |-> "idle"]
    /\ frUrl = [c \in Calls |-> None]
    /\ si = <<>>
    /\ opened = <<>>
    /\ listening = FALSE
    /\ visible = TRUE
    /\ lastToggle = NoToggle
    /\ faults = 0

\* ------------------------------------------------------------ frontend_ready
\* a command that takes without the mutex: a call that overlaps another
\* call's locked region reads the value that call read, before either clears
FrontendReadyTakeUnlocked(c) ==
    /\ Alive
    /\ frPc[c] = "idle"
    /\ \A d \in Calls : d < c => frPc[d] # "idle"
    /\ IF lockHolder = NoHolder
         THEN /\ lockHolder' = CallHolder(c)
              /\ frUrl' = [frUrl EXCEPT ![c] = StoreTake(pending)[1]]
              /\ storeTrace' = Append(storeTrace,
                     [op |-> "take", val |-> StoreTake(pending)[1], by |-> c])
              /\ frPc' = [frPc EXCEPT ![c] = "log"]
         ELSE /\ lockHolder' = lockHolder
              /\ frUrl' = [frUrl EXCEPT ![c] =
                     IF lockHolder = SetupHolder
                       THEN pending ELSE frUrl[lockHolder[2]]]
              /\ storeTrace' = Append(storeTrace,
                     [op |-> "take", val |-> frUrl'[c], by |-> c])
              /\ frPc' = [frPc EXCEPT ![c] = "done"]
    /\ pending' = StoreTake(pending)[2]
    /\ UNCHANGED << cliArgs, mainExists, setupPc, setupErrors,
                    lockPoisoned, si, opened, listening, visible, lastToggle,
                    faults >>

\* lib.rs:11-14 (and 21-24): the command is invoked and calls
\* state.0.lock(), which waits while another context holds the guard; on Ok
\* the guard is held and pending.take() runs, on Err (poisoned) the command
\* returns None
FrontendReadyTake(c) ==
    /\ Alive
    /\ frPc[c] = "idle"
    /\ \A d \in Calls : d < c => frPc[d] # "idle"
    /\ lockHolder = NoHolder
    /\ IF lockPoisoned
         THEN /\ frPc' = [frPc EXCEPT ![c] = "done"]
              /\ frUrl' = [frUrl EXCEPT ![c] = None]
              /\ UNCHANGED << pending, lockHolder, storeTrace >>
         ELSE /\ lockHolder' = CallHolder(c)
              /\ frUrl' = [frUrl EXCEPT ![c] = StoreTake(pending)[1]]
              /\ pending' = StoreTake(pending)[2]
              /\ storeTrace' = Append(storeTrace,
                     [op |-> "take", val |-> StoreTake(pending)[1], by |-> c])
              /\ frPc' = [frPc EXCEPT ![c] = "log"]
    /\ UNCHANGED << cliArgs, mainExists, setupPc, setupErrors,
                    lockPoisoned, si, opened, listening, visible, lastToggle,
                    faults >>

\* lib.rs:15-20: log the outcome while the guard is alive, then return url
\* (the guard is dropped at the end of the if-let block)
FrontendReadyReturn(c) ==
    /\ Alive
    /\ frPc[c] = "log"
    /\ lockHolder = CallHolder(c)
    /\ lockHolder' = NoHolder
    /\ frPc' = [frPc EXCEPT ![c] = "done"]
    /\ UNCHANGED << cliArgs, mainExists, setupPc, setupErrors,
                    pending, lockPoisoned, storeTrace, frUrl, si, opened,
                    listening, visible, lastToggle, faults >>

\* --------------------------------------------------------------- event bus
\* AppHandle::emit("deep-link", url): fire-and-forget; the UI hears the
\* event only if the call succeeds while its listener is attached
Emit(kind, url, ok) ==
    [kind |-> kind, name |-> EventName, url |-> url, ok |-> ok,
     heard |-> ok /\ listening]

\* the UI attaches its listener for the "deep-link" event
UIAttach ==
    /\ Alive
    /\ ~listening
    /\ listening' = TRUE
    /\ UNCHANGED << cliArgs, mainExists, setupPc, setupErrors,
                    pending, lockHolder, lockPoisoned, storeTrace, frPc,
                    frUrl, si, opened, visible, lastToggle, faults >>

\* ------------------------------------------------- single-instance callback
\* a callback without the scheme test
ForwardedUrlNoFilter(args) == ArgGet1(args)
\* lib.rs:34-36: the forwarded URL, if args.get(1) starts with the scheme
ForwardedUrl(args) ==
    IF IsSome(ArgGet1(args)) /\ StartsWith(Unwrap(ArgGet1(args)), Scheme)
      THEN ArgGet1(args) ELSE None

\* a callback that publishes the forwarded URL twice before spawning
ImmediateEmitsTwice(fwd, emitOk) ==
    IF IsSome(fwd)
      THEN << Emit("immediate", Unwrap(fwd), emitOk),
              Emit("immediate", Unwrap(fwd), emitOk) >>
      ELSE <<>>
\* lib.rs:44: the publishes made inside the callback for a forwarded URL
ImmediateEmits(fwd, emitOk) ==
    IF IsSome(fwd) THEN << Emit("immediate", Unwrap(fwd), emitOk) >> ELSE <<>>

\* a retry thread that sleeps once and emits once
SpawnRetryOnce(fwd) == IF IsSome(fwd) THEN "sleep1000" ELSE "none"
\* lib.rs:47: the retry thread is spawned only for a forwarded URL
SpawnRetry(fwd) == IF IsSome(fwd) THEN "sleep500" ELSE "none"

\* a callback that gives up on the window when show fails
RaiseWindowUnlessShowFails(showOk) ==
    IF mainExists
      THEN IF showOk
             THEN << [op |-> "show", ok |-> showOk], [op |-> "set_focus"] >>
             ELSE << [op |-> "show", ok |-> showOk] >>
      ELSE <<>>
\* lib.rs:63-66: the window calls made by the callback
RaiseWindow(showOk) ==
    IF mainExists
      THEN << [op |-> "show", ok |-> showOk], [op |-> "set_focus"] >>
      ELSE <<>>

\* a callback that also buffers the forwarded URL in the store
SingleInstanceBuffering(args) ==
    /\ Running
    /\ CallbacksServed < MaxCallbacks
    /\ lockHolder = NoHolder
    /\ \E emitOk \in (IF IsSome(ForwardedUrl(args)) THEN Outcomes ELSE {TRUE}),
          showOk \in (IF mainExists THEN Outcomes ELSE {TRUE}) :
         /\ Failed(emitOk) + Failed(showOk) <= MaxFaults - faults
         /\ faults' = faults + Failed(emitOk) + Failed(showOk)
         /\ si' = Append(si,
               [args |-> args,
                url |-> ForwardedUrl(args),
                emits |-> ImmediateEmits(ForwardedUrl(args), emitOk),
                retry |-> SpawnRetry(ForwardedUrl(args)),
                ops |-> RaiseWindow(showOk)])
         /\ visible' = IF mainExists /\ showOk THEN TRUE ELSE visible
    /\ pending' = IF IsSome(ForwardedUrl(args)) THEN ForwardedUrl(args) ELSE pending
    /\ storeTrace' = IF IsSome(ForwardedUrl(args))
                       THEN Append(storeTrace,
                              [op |-> "set", val |-> ForwardedUrl(args), by |-> 0])
                       ELSE storeTrace
    /\ UNCHANGED << cliArgs, mainExists, setupPc, setupErrors,
                    lockHolder, lockPoisoned, frPc, frUrl, opened, listening,
                    lastToggle >>

\* lib.rs:32-67: the whole callback: filter args[1], emit immediately,
\* spawn the retry thread, then show and focus the main window
SingleInstance(args) ==
    /\ Running
    /\ CallbacksServed < MaxCallbacks
    /\ \E emitOk \in (IF IsSome(ForwardedUrl(args)) THEN Outcomes ELSE {TRUE}),
          showOk \in (IF mainExists THEN Outcomes ELSE {TRUE}) :
         /\ Failed(emitOk) + Failed(showOk) <= MaxFaults - faults
         /\ faults' = faults + Failed(emitOk) + Failed(showOk)
         /\ si' = Append(si,
               [args |-> args,
                url |-> ForwardedUrl(args),
                emits |-> ImmediateEmits(ForwardedUrl(args), emitOk),
                retry |-> SpawnRetry(ForwardedUrl(args)),
                ops |-> RaiseWindow(showOk)])
         /\ visible' = IF mainExists /\ showOk THEN TRUE ELSE visible
    /\ UNCHANGED << cliArgs, mainExists, setupPc, setupErrors,
                    pending, lockHolder, lockPoisoned, storeTrace, frPc,
                    frUrl, opened, listening, lastToggle >>

\* a retry thread that gives up when its first publish fails
RetryFirstGivesUp(i) ==
    /\ Running
    /\ i \in DOMAIN si
    /\ si[i].retry = "sleep500"
    /\ \E emitOk \in Outcomes :
         /\ faults' = faults + Failed(emitOk)
         /\ si' = [si EXCEPT
               ![i].emits = Append(@, Emit("retry500", Unwrap(si[i].url), emitOk)),
               ![i].retry = IF emitOk THEN "sleep1000" ELSE "done"]
    /\ UNCHANGED << cliArgs, mainExists, setupPc, setupErrors,
                    pending, lockHolder, lockPoisoned, storeTrace, frPc,
                    frUrl, opened, listening, visible, lastToggle >>

\* lib.rs:48-50: the retry thread wakes from its 500 ms sleep and emits
RetryFirst(i) ==
    /\ Running
    /\ i \in DOMAIN si
    /\ si[i].retry = "sleep500"
    /\ \E emitOk \in Outcomes :
         /\ faults' = faults + Failed(emitOk)
         /\ si' = [si EXCEPT
               ![i].emits = Append(@, Emit("retry500", Unwrap(si[i].url), emitOk)),
               ![i].retry = "sleep1000"]
    /\ UNCHANGED << cliArgs, mainExists, setupPc, setupErrors,
                    pending, lockHolder, lockPoisoned, storeTrace, frPc,
                    frUrl, opened, listening, visible, lastToggle >>

\* a retry thread that drops its last publish once the UI has heard the URL
RetrySecondUnlessHeard(i) ==
    /\ Running
    /\ i \in DOMAIN si
    /\ si[i].retry = "sleep1000"
    /\ \E emitOk \in Outcomes :
         /\ faults' = faults + Failed(emitOk)
         /\ si' = [si EXCEPT
               ![i].emits = IF \E k \in DOMAIN @ : @[k].heard
                              THEN @
                              ELSE Append(@, Emit("retry1500", Unwrap(si[i].url), emitOk)),
               ![i].retry = "done"]
    /\ UNCHANGED << cliArgs, mainExists, setupPc, setupErrors,
                    pending, lockHolder, lockPoisoned, storeTrace, frPc,
                    frUrl, opened, listening, visible, lastToggle >>
\* lib.rs:52-54: it wakes from its further 1000 ms sleep, emits and ends
RetrySecond(i) ==
    /\ Running
    /\ i \in DOMAIN si
    /\ si[i].retry = "sleep1000"
    /\ \E emitOk \in Outcomes :
         /\ faults' = faults + Failed(emitOk)
         /\ si' = [si EXCEPT
               ![i].emits = Append(@, Emit("retry1500", Unwrap(si[i].url), emitOk)),
               ![i].retry = "done"]
    /\ UNCHANGED << cliArgs, mainExists, setupPc, setupErrors,
                    pending, lockHolder, lockPoisoned, storeTrace, frPc,
                    frUrl, opened, listening, visible, lastToggle >>

\* --------------------------------------------------------- open-URL callback
\* a callback that publishes every URL of the list
OpenUrlEmitsAll(urls, emitOk) ==
    [k \in 1..Len(urls) |-> Emit("open_url", urls[k], emitOk)]
\* lib.rs:119-122: the publishes made for the URL list of one event
OpenUrlEmits(urls, emitOk) ==
    IF IsSome(First(urls))
      THEN << Emit("open_url", Unwrap(First(urls)), emitOk) >> ELSE <<>>

\* a callback that also leaves its URL in the store for frontend_ready
OpenUrlBuffering(urls) ==
    /\ Running
    /\ CallbacksServed < MaxCallbacks
    /\ lockHolder = NoHolder
    /\ \E emitOk \in (IF IsSome(First(urls)) THEN Outcomes ELSE {TRUE}) :
         /\ faults' = faults + Failed(emitOk)
         /\ opened' = Append(opened,
               [urls |-> urls, emits |-> OpenUrlEmits(urls, emitOk)])
    /\ pending' = IF IsSome(First(urls)) THEN First(urls) ELSE pending
    /\ storeTrace' = IF IsSome(First(urls))
                       THEN Append(storeTrace,
                              [op |-> "set", val |-> First(urls), by |-> 0])
                       ELSE storeTrace
    /\ UNCHANGED << cliArgs, mainExists, setupPc, setupErrors,
                    lockHolder, lockPoisoned, frPc, frUrl, si, listening,
                    visible, lastToggle >>

\* lib.rs:118-123: emit the first URL of the event, if there is one
OpenUrl(urls) ==
    /\ Running
    /\ CallbacksServed < MaxCallbacks
    /\ \E emitOk \in (IF IsSome(First(urls)) THEN Outcomes ELSE {TRUE}) :
         /\ faults' = faults + Failed(emitOk)
         /\ opened' = Append(opened,
               [urls |-> urls, emits |-> OpenUrlEmits(urls, emitOk)])
    /\ UNCHANGED << cliArgs, mainExists, setupPc, setupErrors,
                    pending, lockHolder, lockPoisoned, storeTrace, frPc,
                    frUrl, si, listening, visible, lastToggle >>

\* ---------------------------------------------------------- shortcut toggle
\* a handler that takes a failed query for a visible window
IsVisibleOrTrue(queryOk) == IF queryOk THEN visible ELSE TRUE
\* lib.rs:143: window.is_visible().unwrap_or(false)
IsVisibleOrFalse(queryOk) == IF queryOk THEN visible ELSE FALSE

\* lib.rs:143-148: the window calls of one trigger and the visibility after
ToggleOps(isVisible, callOk) ==
    IF isVisible
      THEN << [op |-> "hide", ok |-> callOk] >>
      ELSE << [op |-> "show", ok |-> callOk], [op |-> "set_focus"] >>
ToggleResult(isVisible, callOk) ==
    IF ~callOk THEN visible ELSE ~isVisible

\* lib.rs:141-149: is_visible().unwrap_or(false) decides between hide and
\* show + set_focus; every window call's result is discarded
Shortcut ==
    /\ Running
    /\ CallbacksServed < MaxCallbacks
    /\ \E queryOk \in Outcomes, callOk \in Outcomes :
         /\ Failed(queryOk) + Failed(callOk) <= MaxFaults - faults
         /\ faults' = faults + Failed(queryOk) + Failed(callOk)
         /\ visible' = ToggleResult(IsVisibleOrFalse(queryOk), callOk)
         /\ lastToggle' =
              [n |-> lastToggle.n + 1,
               seen |-> IF ~queryOk THEN "failed"
                        ELSE IF visible THEN "visible" ELSE "hidden",
               before |-> visible,
               ops |-> ToggleOps(IsVisibleOrFalse(queryOk), callOk),
               after |-> visible']
    /\ UNCHANGED << cliArgs, mainExists, setupPc, setupErrors,
                    pending, lockHolder, lockPoisoned, storeTrace, frPc,
                    frUrl, si, opened, listening >>

\* -------------------------------------------------------------------- setup
\* lib.rs:74-93: register_all, and in debug builds register("promptvault");
\* both failures are only logged
SetupRegister ==
    /\ setupPc = "register"
    /\ \E allOk \in Outcomes, oneOk \in (IF DebugBuild THEN Outcomes ELSE {TRUE}) :
         /\ Failed(allOk) + Failed(oneOk) <= MaxFaults - faults
         /\ faults' = faults + Failed(allOk) + Failed(oneOk)
         /\ setupErrors' = setupErrors
               \cup (IF allOk THEN {} ELSE {"register_all"})
               \cup (IF oneOk THEN {} ELSE {"register"})
    /\ setupPc' = "cold_start"
    /\ UNCHANGED << cliArgs, mainExists, pending, lockHolder,
                    lockPoisoned, storeTrace, frPc, frUrl, si, opened,
                    listening, visible, lastToggle >>

\* a cold-start check without the scheme test
ColdStartUrlNoFilter(args) == ArgGet1(args)
\* lib.rs:99-101: the URL the cold-start check decides to store, if any
ColdStartUrl(args) ==
    IF IsSome(ArgGet1(args)) /\ StartsWith(Unwrap(ArgGet1(args)), Scheme)
      THEN ArgGet1(args) ELSE None

\* a cold-start check that returns the lock error from setup
SetupColdStartLockFatal ==
    /\ setupPc = "cold_start"
    /\ IF IsSome(ColdStartUrl(cliArgs))
         THEN /\ lockHolder = NoHolder
              /\ IF lockPoisoned
                   THEN /\ setupErrors' = setupErrors \cup {"lock"}
                        /\ setupPc' = "failed"
                        /\ UNCHANGED << pending, lockHolder, storeTrace >>
                   ELSE /\ lockHolder' = SetupHolder
                        /\ pending' = StoreSet(pending, Unwrap(ColdStartUrl(cliArgs)))
                        /\ storeTrace' = Append(storeTrace,
                              [op |-> "set", val |-> ColdStartUrl(cliArgs), by |-> 0])
                        /\ setupPc' = "cold_stored"
                        /\ UNCHANGED setupErrors
         ELSE /\ setupPc' = "open_url"
              /\ UNCHANGED << pending, lockHolder, storeTrace, setupErrors >>
    /\ UNCHANGED << cliArgs, mainExists, lockPoisoned, frPc,
                    frUrl, si, opened, listening, visible, lastToggle, faults >>
\* lib.rs:97-104 (and 106-114): inspect args[1]; for a matching URL lock
\* the store and write it, the guard staying alive; otherwise only log
SetupColdStart ==
    /\ setupPc = "cold_start"
    /\ IF IsSome(ColdStartUrl(cliArgs))
         THEN /\ lockHolder = NoHolder
              /\ IF lockPoisoned
                   THEN /\ setupErrors' = setupErrors \cup {"lock"}
                        /\ setupPc' = "open_url"
                        /\ UNCHANGED << pending, lockHolder, storeTrace >>
                   ELSE /\ lockHolder' = SetupHolder
                        /\ pending' = StoreSet(pending, Unwrap(ColdStartUrl(cliArgs)))
                        /\ storeTrace' = Append(storeTrace,
                              [op |-> "set", val |-> ColdStartUrl(cliArgs), by |-> 0])
                        /\ setupPc' = "cold_stored"
                        /\ UNCHANGED setupErrors
         ELSE /\ setupPc' = "open_url"
              /\ UNCHANGED << pending, lockHolder, storeTrace, setupErrors >>
    /\ UNCHANGED << cliArgs, mainExists, lockPoisoned, frPc,
                    frUrl, si, opened, listening, visible, lastToggle, faults >>

\* lib.rs:105-106: log the stored URL, then the guard goes out of scope
SetupColdStartRelease ==
    /\ setupPc = "cold_stored"
    /\ lockHolder = SetupHolder
    /\ lockHolder' = NoHolder
    /\ setupPc' = "open_url"
    /\ UNCHANGED << cliArgs, mainExists, setupErrors, pending,
                    lockPoisoned, storeTrace, frPc, frUrl, si, opened,
                    listening, visible, lastToggle, faults >>

\* lib.rs:117-123: register the on_open_url callback
SetupOnOpenUrl ==
    /\ setupPc = "open_url"
    /\ setupPc' = "log_plugin"
    /\ UNCHANGED << cliArgs, mainExists, setupErrors, pending,
                    lockHolder, lockPoisoned, storeTrace, frPc, frUrl, si,
                    opened, listening, visible, lastToggle, faults >>

\* lib.rs:125-131: in debug builds install the log plugin; `?` returns its
\* error from setup
SetupLogPlugin ==
    /\ setupPc = "log_plugin"
    /\ \E ok \in (IF DebugBuild THEN Outcomes ELSE {TRUE}) :
         /\ faults' = faults + Failed(ok)
         /\ setupErrors' = setupErrors \cup (IF ok THEN {} ELSE {"log_plugin"})
         /\ setupPc' = IF ok THEN "shortcut" ELSE "failed"
    /\ UNCHANGED << cliArgs, mainExists, pending, lockHolder,
                    lockPoisoned, storeTrace, frPc, frUrl, si, opened,
                    listening, visible, lastToggle >>

\* lib.rs:125-131: the log plugin is installed, so log::info! writes its
\* record out (before that, and in a release build, no logger is set and
\* the macros do nothing)
LoggerInstalled == DebugBuild /\ setupPc \in {"shortcut", "done"}

\* lib.rs:139-151: get_webview_window("main").unwrap() panics without the
\* window; on_shortcut(..)? returns its error from setup; else Ok(())
SetupShortcut ==
    /\ setupPc = "shortcut"
    /\ IF ~mainExists
         THEN /\ setupErrors' = setupErrors \cup {"main_window"}
              /\ setupPc' = "panicked"
              /\ UNCHANGED faults
         ELSE \E ok \in Outcomes :
                /\ faults' = faults + Failed(ok)
                /\ setupErrors' = setupErrors \cup (IF ok THEN {} ELSE {"shortcut"})
                /\ setupPc' = IF ok THEN "done" ELSE "failed"
    /\ UNCHANGED << cliArgs, mainExists, pending, lockHolder,
                    lockPoisoned, storeTrace, frPc, frUrl, si, opened,
                    listening, visible, lastToggle >>

\* ------------------------------------------------------------ specification
Next ==
    \/ SetupRegister
    \/ SetupColdStart
    \/ SetupColdStartRelease
    \/ SetupOnOpenUrl
    \/ SetupLogPlugin
    \/ SetupShortcut
    \/ \E c \in Calls : FrontendReadyTake(c)
    \/ \E c \in Calls : FrontendReadyReturn(c)
    \/ UIAttach
    \/ \E args \in ForwardArgLists : SingleInstance(args)
    \/ \E i \in 1..MaxCallbacks : RetryFirst(i)
    \/ \E i \in 1..MaxCallbacks : RetrySecond(i)
    \/ \E urls \in OpenUrlLists : OpenUrl(urls)
    \/ Shortcut

Spec == Init /\ [][Next]_vars

\* ------------------------------------------------- the retry thread, fairly
\* an instance launched with a URL, so that the store has something for
\* frontend_ready to drain while retry threads run (lib.rs:97-104)
InitFair ==
    /\ Init
    /\ cliArgs = <<"prog", UrlA>>
    /\ mainExists = TRUE

\* std::thread::spawn (lib.rs:47) hands the closure to an OS thread of its
\* own: the scheduler runs it whatever the other contexts do, its sleeps
\* end, and nothing in the program holds a handle that could stop it
SpecFair ==
    /\ InitFair
    /\ [][Next]_vars
    /\ \A i \in 1..MaxCallbacks :
          WF_vars(RetryFirst(i)) /\ WF_vars(RetrySecond(i))

\* ------------------------------------------------ the store taken by itself
\* The operations of PendingDeepLink applied in any order to any URLs:
\* the write of lib.rs:104 and the take of lib.rs:14, under the lock.
InitStore ==
    /\ Init
    /\ cliArgs = <<"prog">>
    /\ mainExists = TRUE

SetOp(u) ==
    /\ Len(storeTrace) < MaxStoreOps
    /\ pending' = StoreSet(pending, u)
    /\ storeTrace' = Append(storeTrace, [op |-> "set", val |-> Some(u), by |-> 0])
    /\ UNCHANGED << cliArgs, mainExists, setupPc, setupErrors,
                    lockHolder, lockPoisoned, frPc, frUrl, si, opened,
                    listening, visible, lastToggle, faults >>

TakeOp ==
    /\ Len(storeTrace) < MaxStoreOps
    /\ pending' = StoreTake(pending)[2]
    /\ storeTrace' = Append(storeTrace,
           [op |-> "take", val |-> StoreTake(pending)[1], by |-> 0])
    /\ UNCHANGED << cliArgs, mainExists, setupPc, setupErrors,
                    lockHolder, lockPoisoned, frPc, frUrl, si, opened,
                    listening, visible, lastToggle, faults >>

NextStore ==
    \/ \E u \in Strings : SetOp(u)
    \/ TakeOp

SpecStore == InitStore /\ [][NextStore]_vars

\* ------------------------------------------- the store with a poisoned lock
\* lib.rs:15-19: the log call made while the guard of lib.rs:13 is alive
\* panics (a logger is free to): the command's context unwinds without
\* returning a value, the guard is dropped during the unwinding and
\* std::sync::Mutex marks itself poisoned, so that every later lock() is Err
FrontendReadyPanic(c) ==
    /\ Alive
    /\ frPc[c] = "log"
    /\ lockHolder = CallHolder(c)
    /\ lockHolder' = NoHolder
    /\ lockPoisoned' = TRUE
    /\ frPc' = [frPc EXCEPT ![c] = "panicked"]
    /\ frUrl' = [frUrl EXCEPT ![c] = None]
    /\ UNCHANGED << cliArgs, mainExists, setupPc, setupErrors,
                    pending, storeTrace, si, opened, listening, visible,
                    lastToggle, faults >>

\* the contexts that lock the store (setup, frontend_ready) and the
\* callbacks setup registers (on_open_url, on_shortcut)
NextPoison ==
    \/ SetupRegister
    \/ SetupColdStart
    \/ SetupColdStartRelease
    \/ SetupOnOpenUrl
    \/ SetupLogPlugin
    \/ SetupShortcut
    \/ \E c \in Calls : FrontendReadyTake(c)
    \/ \E c \in Calls : FrontendReadyReturn(c)
    \/ \E c \in Calls : FrontendReadyPanic(c)
    \/ \E urls \in OpenUrlLists : OpenUrl(urls)
    \/ Shortcut

SpecPoison == Init /\ [][NextPoison]_vars

\* ================================================================== claims
\* args[1] of a launch is a URL with the recognized scheme
HasSchemeArg(args) == Len(args) >= 2 /\ args[2] \in Urls

\* positions of the store history holding a write, and holding a take
SetAt == { k \in DOMAIN storeTrace : storeTrace[k].op = "set" }
TakeAt == { k \in DOMAIN storeTrace : storeTrace[k].op = "take" }

\* the setup closure is past its cold-start check (lib.rs:97-114)
PastColdStart == setupPc \notin {"register", "cold_start", "cold_stored"}

\* how often the UI has been handed u: as the return value of frontend_ready
\* and as the payload of a "deep-link" event it heard
HandshakeCount(u) ==
    Cardinality({ c \in Calls : frPc[c] = "done" /\ frUrl[c] = Some(u) })
Publishes(callbacks) ==
    UNION { { <<i, k>> : k \in DOMAIN callbacks[i].emits } : i \in DOMAIN callbacks }
HeardForward(u) ==
    Cardinality({ e \in Publishes(si) :
                    /\ si[e[1]].emits[e[2]].heard
                    /\ si[e[1]].emits[e[2]].url = u })
HeardOpen(u) ==
    Cardinality({ e \in Publishes(opened) :
                    /\ opened[e[1]].emits[e[2]].heard
                    /\ opened[e[1]].emits[e[2]].url = u })
Received(u) == HandshakeCount(u) + HeardForward(u) + HeardOpen(u)

\* how often u has entered: at cold start, forwarded, by open-URL callback
EnteredCold(u) ==
    IF PastColdStart /\ HasSchemeArg(cliArgs) /\ cliArgs[2] = u THEN 1 ELSE 0
EnteredForward(u) ==
    Cardinality({ i \in DOMAIN si : HasSchemeArg(si[i].args) /\ si[i].args[2] = u })
EnteredOpen(u) ==
    Cardinality({ j \in DOMAIN opened :
                    Len(opened[j].urls) >= 1 /\ opened[j].urls[1] = u })

\* every activation has run its course and the UI made its one readiness call
Settled ==
    /\ Running
    /\ listening
    /\ frPc[1] = "done"
    /\ \A c \in Calls : c > 1 => frPc[c] = "idle"
    /\ \A i \in DOMAIN si : si[i].retry \in {"none", "done"}

\* C1 (as stated): once everything has settled, the UI has received every
\* recognized URL exactly as often as it entered through the entry points,
\* i.e. exactly once per activation.
C1_ExactlyOnce ==
    Settled => \A u \in Urls :
        Received(u) = EnteredCold(u) + EnteredForward(u) + EnteredOpen(u)

\* C1 (amended): the UI is handed a cold-start URL by frontend_ready at most
\* once, and exactly once as soon as a call that took the store after the
\* cold-start write has returned; it hears a forwarded URL at most three
\* times per forward and an open-URL callback's URL at most once per event,
\* and only by publishes that succeeded.
C1_Delivery ==
    \A u \in Urls :
        /\ HandshakeCount(u) <= EnteredCold(u)
        /\ HeardForward(u) <= 3 * EnteredForward(u)
        /\ HeardOpen(u) <= EnteredOpen(u)
        /\ (\E k \in TakeAt, j \in SetAt :
              /\ j < k
              /\ storeTrace[j].val = Some(u)
              /\ frPc[storeTrace[k].by] = "done")
           => HandshakeCount(u) = 1

\* a forwarded URL that the UI heard three times
C1_Witness ==
    \E i \in DOMAIN si :
        /\ si[i].retry = "done"
        /\ Len(si[i].emits) = 3
        /\ \A k \in 1..3 : si[i].emits[k].heard

\* C2: once a URL U is in the store, the first frontend_ready call taking
\* the store afterwards returns U and leaves the store empty, and every
\* further call returns None.
C2_TakeOnce ==
    /\ \A j \in SetAt, k \in TakeAt :
          (j < k /\ \A m \in TakeAt : ~(j < m /\ m < k))
             => storeTrace[k].val = storeTrace[j].val
    /\ \A k \in TakeAt, m \in TakeAt :
          (k < m /\ \E j \in SetAt : j < k) => storeTrace[m].val = None
    /\ \A k \in TakeAt :
          /\ frUrl[storeTrace[k].by] = storeTrace[k].val
          /\ (\A m \in DOMAIN storeTrace : m <= k) => pending = None

\* two calls after a cold start with [prog, U]: U, then None
C2_Witness ==
    /\ cliArgs = <<"prog", UrlA>>
    /\ frPc[1] = "done" /\ frUrl[1] = Some(UrlA)
    /\ frPc[2] = "done" /\ frUrl[2] = None

\* C3: a callback that forwards a URL publishes it once itself, the retry
\* thread then publishes it a first and then a second time: the publishes of
\* one callback are, in this order, immediate, 500 ms, 1500 ms, each the
\* "deep-link" event with the forwarded args[1] as payload, three in all.
C3_ThreePublishes ==
    \A i \in DOMAIN si : HasSchemeArg(si[i].args) =>
        /\ Len(si[i].emits) =
              (CASE si[i].retry = "sleep500" -> 1
                 [] si[i].retry = "sleep1000" -> 2
                 [] si[i].retry = "done" -> 3
                 [] OTHER -> 0 - 1)
        /\ \A k \in DOMAIN si[i].emits :
              /\ si[i].emits[k].kind = <<"immediate", "retry500", "retry1500">>[k]
              /\ si[i].emits[k].name = "deep-link"
              /\ si[i].emits[k].url = si[i].args[2]

\* a callback whose three publishes have all been made
C3_Witness ==
    \E i \in DOMAIN si :
        /\ HasSchemeArg(si[i].args)
        /\ si[i].retry = "done"
        /\ Len(si[i].emits) = 3

\* C4: the cold-start check writes args[1] to the store iff args[1] exists
\* and begins with the scheme; otherwise the store stays empty; nothing but
\* args[1] is ever stored.
C4_ColdStartFilter ==
    /\ (setupPc = "cold_stored") =>
          (HasSchemeArg(cliArgs) /\ pending = Some(cliArgs[2]))
    /\ (PastColdStart /\ HasSchemeArg(cliArgs)) =>
          (\E j \in SetAt : SetAt = {j} /\ storeTrace[j].val = Some(cliArgs[2]))
    /\ (PastColdStart /\ ~HasSchemeArg(cliArgs)) =>
          (SetAt = {} /\ pending = None)
    /\ IsSome(pending) => (HasSchemeArg(cliArgs) /\ pending = Some(cliArgs[2]))

\* a launch whose args[1] is rejected although args[2] matches
C4_Witness ==
    /\ cliArgs = <<"prog", "promptvault:/x", UrlA>>
    /\ PastColdStart
    /\ pending = None

\* C5: set(A), set(B), take() yields B and not A, the next take() yields
\* None; the store never holds more than one value.
C5_LastWriteWins ==
    /\ Len(pending) <= 1
    /\ \A k \in DOMAIN storeTrace :
          (/\ k >= 3
           /\ storeTrace[k].op = "take"
           /\ storeTrace[k-1].op = "set"
           /\ storeTrace[k-2].op = "set")
          => /\ storeTrace[k].val = storeTrace[k-1].val
             /\ (storeTrace[k-2].val # storeTrace[k-1].val
                    => storeTrace[k].val # storeTrace[k-2].val)
             /\ (k = Len(storeTrace) => pending = None)
             /\ ((k + 1 \in DOMAIN storeTrace /\ storeTrace[k+1].op = "take")
                    => storeTrace[k+1].val = None)

\* set(A); set(B); take() = B; take() = None, for two different URLs
C5_Witness ==
    /\ Len(storeTrace) = 4
    /\ storeTrace[1] = [op |-> "set", val |-> Some(UrlA), by |-> 0]
    /\ storeTrace[2] = [op |-> "set", val |-> Some(UrlB), by |-> 0]
    /\ storeTrace[3] = [op |-> "take", val |-> Some(UrlB), by |-> 0]
    /\ storeTrace[4] = [op |-> "take", val |-> None, by |-> 0]

\* C6: a callback whose args[1] is absent or lacks the scheme publishes
\* nothing, neither itself nor later: no retry thread exists for it.
C6_NoPublishWithoutScheme ==
    \A i \in DOMAIN si : ~HasSchemeArg(si[i].args) =>
        /\ si[i].emits = <<>>
        /\ si[i].retry = "none"

\* such a callback, followed by another callback
C6_Witness ==
    /\ CallbacksServed = 2
    /\ 1 \in DOMAIN si
    /\ si[1].args = <<"prog", "http://not-ours", UrlB>>
    /\ si[1].emits = <<>>

\* C7: every callback, whatever its args[1], calls show and then set_focus
\* on the main window, each once.
C7_RaisesWindowOnce ==
    \A i \in DOMAIN si :
        /\ Len(si[i].ops) = 2
        /\ si[i].ops[1].op = "show"
        /\ si[i].ops[2].op = "set_focus"

\* a callback without args[1] whose show failed, and one that forwarded
C7_Witness ==
    /\ Len(si) = 2
    /\ Len(si[1].args) < 2
    /\ ~si[1].ops[1].ok
    /\ HasSchemeArg(si[2].args)

\* C8: a trigger that sees the window visible hides it, one that sees it
\* hidden shows and focuses it, one whose query fails shows and focuses it;
\* what it sees is the visibility at that moment, and a trigger whose query
\* and window call succeed leaves the visibility flipped.
C8_Toggle ==
    lastToggle.n >= 1 =>
        /\ lastToggle.seen \in {"visible", "hidden"}
              => (lastToggle.seen = "visible") = lastToggle.before
        /\ lastToggle.seen = "visible"
              => (Len(lastToggle.ops) = 1 /\ lastToggle.ops[1].op = "hide")
        /\ lastToggle.seen \in {"hidden", "failed"}
              => /\ Len(lastToggle.ops) = 2
                 /\ lastToggle.ops[1].op = "show"
                 /\ lastToggle.ops[2].op = "set_focus"
        /\ (lastToggle.seen # "failed" /\ lastToggle.ops[1].ok)
              => lastToggle.after = ~lastToggle.before

\* a trigger whose query failed while the window was visible
C8_Witness ==
    /\ lastToggle.n >= 1
    /\ lastToggle.seen = "failed"
    /\ lastToggle.before = TRUE
    /\ lastToggle.ops[1].op = "show"

\* C9 (as stated): at every entry point a candidate that lacks the scheme is
\* neither stored nor published.
C9_IgnoredEverywhere ==
    /\ (~HasSchemeArg(cliArgs)) => (pending = None /\ SetAt = {})
    /\ \A i \in DOMAIN si : ~HasSchemeArg(si[i].args) => si[i].emits = <<>>
    /\ \A j \in DOMAIN opened :
          (Len(opened[j].urls) >= 1 /\ opened[j].urls[1] \notin Urls)
             => opened[j].emits = <<>>

\* the URL this process was cold-started with, if any
ColdUrl == IF HasSchemeArg(cliArgs) THEN Some(cliArgs[2]) ELSE None

\* C10 (as stated): a URL forwarded while the UI does not listen yet has
\* been put into the store for frontend_ready to return.
C10_ForwardBuffered ==
    \A i \in DOMAIN si :
        (HasSchemeArg(si[i].args) /\ ~si[i].emits[1].heard)
           => \E j \in SetAt : storeTrace[j].val = Some(si[i].args[2])

\* C10 (amended): a forwarded URL is never put into the store, listening UI
\* or not: the store is never written with it, never holds it, and no
\* frontend_ready call returns it, unless it is this process's own
\* cold-start URL.
C10_ForwardNotBuffered ==
    \A i \in DOMAIN si :
        (HasSchemeArg(si[i].args) /\ Some(si[i].args[2]) # ColdUrl)
           => /\ pending # Some(si[i].args[2])
              /\ \A j \in DOMAIN storeTrace : storeTrace[j].val # Some(si[i].args[2])
              /\ \A c \in Calls : frUrl[c] # Some(si[i].args[2])

\* a forwarded URL no publish of which was heard, and a later empty handshake
C10_Witness ==
    \E i \in DOMAIN si :
        /\ HasSchemeArg(si[i].args)
        /\ si[i].retry = "done"
        /\ \A k \in DOMAIN si[i].emits : ~si[i].emits[k].heard
        /\ frPc[1] = "done"
        /\ frUrl[1] = None
        /\ pending = None

\* what the open-URL callbacks served so far have published
C11_FirstUrlOnly ==
    \A j \in DOMAIN opened :
        IF Len(opened[j].urls) >= 1
          THEN /\ Len(opened[j].emits) = 1
               /\ opened[j].emits[1].kind = "open_url"
               /\ opened[j].emits[1].name = "deep-link"
               /\ opened[j].emits[1].url = opened[j].urls[1]
          ELSE opened[j].emits = <<>>
\* a step serving an open-URL callback touches neither the store, nor its
\* lock, nor any retry thread
C11_Frame ==
    Len(opened') > Len(opened) =>
        /\ pending' = pending
        /\ storeTrace' = storeTrace
        /\ lockHolder' = lockHolder
        /\ si' = si

\* C11: an open-URL callback given a non-empty list publishes exactly one
\* "deep-link" event, with the first URL of the list, and nothing for the
\* others; given an empty list it publishes nothing; either way the step
\* leaves the pending store as it was and starts no retry thread.
C11_OpenUrl == []C11_FirstUrlOnly /\ [][C11_Frame]_vars

\* a two-URL event and an empty event served while the store holds a URL
C11_Witness ==
    /\ IsSome(pending)
    /\ Len(opened) = 2
    /\ opened[1].urls = <<UrlA, UrlB>>
    /\ Len(opened[1].emits) = 1
    /\ opened[2].urls = <<>>

\* a step taken while the lock is poisoned: the store and its history stay
\* as they are and nobody holds the lock; a frontend_ready call that starts
\* returns None at once; the cold-start check moves on to registering the
\* open-URL callback
C12_Step ==
    lockPoisoned =>
        /\ pending' = pending
        /\ storeTrace' = storeTrace
        /\ lockHolder' = NoHolder
        /\ \A c \in Calls :
              (frPc[c] = "idle" /\ frPc'[c] # "idle")
                 => (frPc'[c] = "done" /\ frUrl'[c] = None)
        /\ (setupPc = "cold_start" /\ setupPc' # "cold_start")
              => setupPc' = "open_url"
\* a failed cold-start lock never ends setup: setup is past the check, and
\* has ended in an error only for a failed plugin or shortcut registration
\* or a missing main window
C12_SetupGoesOn ==
    "lock" \in setupErrors =>
        /\ lockPoisoned
        /\ pending = None
        /\ setupPc \in {"open_url", "log_plugin", "shortcut", "done",
                        "failed", "panicked"}
        /\ setupPc = "failed"
              => setupErrors \cap {"log_plugin", "shortcut"} # {}
        /\ setupPc = "panicked" => "main_window" \in setupErrors

\* C12: with the lock poisoned, frontend_ready returns None and the
\* cold-start check stores nothing, the stored value stays what it was and
\* neither fails nor panics; after a failed cold-start lock setup goes on
\* to register the open-URL callback and the global shortcut.
C12_FailSoft == []C12_SetupGoesOn /\ [][C12_Step]_vars

\* the cold-start check of [prog, U] met a poisoned lock, setup finished,
\* both registered callbacks have been served, and a frontend_ready call
\* made with the lock poisoned returned None
C12_Witness ==
    /\ HasSchemeArg(cliArgs)
    /\ "lock" \in setupErrors
    /\ Running
    /\ Len(opened) = 1
    /\ lastToggle.n = 1
    /\ frPc[1] = "panicked"
    /\ frPc[2] = "done"
    /\ frUrl[2] = None

\* C13 (as stated): setup ends without Ok(()) only for a failed shortcut
\* registration, and a failed shortcut registration always ends it; a
\* failed scheme registration, cold-start lock, log-plugin installation or
\* main-window lookup never does.
C13_OnlyShortcutFatal ==
    /\ ~Alive => setupErrors \cap {"shortcut"} # {}
    /\ "shortcut" \in setupErrors => setupPc = "failed"
    /\ Running => "shortcut" \notin setupErrors

\* the frontend_ready calls that were handed u
ReturnedTo(u) == { c \in Calls : frPc[c] \in {"log", "done"} /\ frUrl[c] = Some(u) }

\* C14: however the frontend_ready calls interleave with each other and
\* with the cold-start write, a stored URL is returned by at most one call
\* (by exactly one unless it is still in the store), what a call returns is
\* None or a whole value that was stored, and only the context holding the
\* lock is between its store operation and its release.
C14_AtomicTake ==
    /\ \A u \in Strings :
          /\ Cardinality(ReturnedTo(u))
                <= Cardinality({ j \in SetAt : storeTrace[j].val = Some(u) })
          /\ (\E j \in SetAt : storeTrace[j].val = Some(u))
                => (pending = Some(u)) # (Cardinality(ReturnedTo(u)) = 1)
    /\ \A c \in Calls :
          /\ frUrl[c] \in {None} \cup { storeTrace[j].val : j \in SetAt }
          /\ frPc[c] = "log" <=> lockHolder = CallHolder(c)
    /\ setupPc = "cold_stored" <=> lockHolder = SetupHolder

\* a call that took the store before the cold-start write and returned
\* None, the write, and a second call that took and returned the URL
C14_Witness ==
    /\ Len(storeTrace) = 3
    /\ storeTrace[1] = [op |-> "take", val |-> None, by |-> 1]
    /\ storeTrace[2] = [op |-> "set", val |-> Some(UrlA), by |-> 0]
    /\ storeTrace[3] = [op |-> "take", val |-> Some(UrlA), by |-> 2]
    /\ frPc[1] = "done" /\ frUrl[1] = None
    /\ frPc[2] = "done" /\ frUrl[2] = Some(UrlA)

\* every retry thread spawned so far has made both its delayed publishes
AllRetriesFired ==
    \A i \in DOMAIN si :
        IsSome(si[i].url) =>
            /\ si[i].retry = "done"
            /\ Len(si[i].emits) = 3
            /\ si[i].emits[2].kind = "retry500"
            /\ si[i].emits[3].kind = "retry1500"

\* C15: once a callback has spawned its retry thread, the thread makes its
\* first and then its second delayed publish, whatever else happens
\* meanwhile (frontend_ready calls, the UI hearing the URL, further
\* callbacks, toggles): from every state on, a state is reached in which
\* every retry thread spawned until then has made both publishes.
C15_RetriesFire == []<>AllRetriesFired

\* both delayed publishes were made although the UI had heard the immediate
\* one, a frontend_ready call had returned and another callback was served
C15_Witness ==
    /\ Len(si) = 1
    /\ si[1].retry = "done"
    /\ Len(si[1].emits) = 3
    /\ si[1].emits[1].heard
    /\ frPc[1] = "done"
    /\ CallbacksServed = 2

\* some retry thread is asleep, before its first or its second publish
RetrySleeping == \E i \in DOMAIN si : si[i].retry \in {"sleep500", "sleep1000"}

\* C16: the callback has raised the window and returned before either
\* delayed publish is made, and while a retry thread sleeps every other
\* context can take its step: a frontend_ready call can lock and take (when
\* no other call holds the lock) and can return, and a shortcut trigger, an
\* open-URL callback and a further single-instance callback can be served.
C16_NoBlocking ==
    /\ \A i \in DOMAIN si :
          si[i].retry = "sleep500"
             => (Len(si[i].emits) = 1 /\ Len(si[i].ops) = Len(RaiseWindow(TRUE)))
    /\ RetrySleeping =>
          /\ \A c \in Calls :
                /\ (/\ frPc[c] = "idle"
                    /\ \A d \in Calls : d < c => frPc[d] # "idle"
                    /\ lockHolder = NoHolder)
                      => ENABLED FrontendReadyTake(c)
                /\ frPc[c] = "log" => ENABLED FrontendReadyReturn(c)
          /\ CallbacksServed < MaxCallbacks =>
                /\ ENABLED Shortcut
                /\ \A urls \in OpenUrlLists : ENABLED OpenUrl(urls)
                /\ \A args \in ForwardArgLists : ENABLED SingleInstance(args)

\* a second forwarding callback was served, window raised, and a
\* frontend_ready call returned the stored URL, all while the first
\* callback's retry thread is still in its first sleep
C16_Witness ==
    /\ Len(si) = 2
    /\ si[1].retry = "sleep500"
    /\ si[2].retry = "sleep500"
    /\ Len(si[2].ops) = 2
    /\ frPc[1] = "done"
    /\ frUrl[1] = Some(UrlA)

\* C17: a failed publish or window call changes nothing in what the
\* callback and its thread do next: after a failed immediate publish the
\* thread is spawned and the window calls are made, after a failed first
\* delayed publish the second is still to come or made, the publishes are
\* never more than the three (one per step taken, failed or not), and a
\* failed show is followed by set_focus.
C17_FailuresChangeNothing ==
    \A i \in DOMAIN si :
        /\ IsSome(si[i].url) =>
              /\ si[i].retry \in {"sleep500", "sleep1000", "done"}
              /\ Len(si[i].emits) =
                    (CASE si[i].retry = "sleep500" -> 1
                       [] si[i].retry = "sleep1000" -> 2
                       [] OTHER -> 3)
              /\ \A k \in DOMAIN si[i].emits :
                    si[i].emits[k].kind = <<"immediate", "retry500", "retry1500">>[k]
        /\ Len(si[i].ops) = 2
        /\ si[i].ops[1].op = "show"
        /\ si[i].ops[2].op = "set_focus"

\* a callback whose first delayed publish failed and whose thread has made
\* the second one all the same
C17_Witness ==
    \E i \in DOMAIN si :
        /\ si[i].retry = "done"
        /\ Len(si[i].emits) = 3
        /\ ~si[i].emits[2].ok
        /\ si[i].emits[3].ok
        /\ Len(si[i].ops) = 2

\* C18 (as stated): whenever a context holds the lock it is not at a call
\* that writes log output (nor at an emit): frontend_ready makes its log
\* call about the taken value with the lock released.  (The cold-start
\* check's log call under the lock, lib.rs:105, comes before any logger is
\* installed and writes nothing.)
C18_NoIoUnderLock ==
    LoggerInstalled =>
        \A c \in Calls : ~(lockHolder = CallHolder(c) /\ frPc[c] = "log")

\* a step of a single-instance callback, a retry thread, an open-URL
\* callback or a shortcut trigger
CallbackStep == si' # si \/ opened' # opened \/ lastToggle' # lastToggle

\* what a step may do to the store
C19_Step ==
    /\ CallbackStep => (pending' = pending /\ storeTrace' = storeTrace)
    /\ (pending' # pending /\ IsSome(pending')) => setupPc = "cold_start"
    /\ (Len(storeTrace') > Len(storeTrace) /\ storeTrace'[Len(storeTrace')].op = "set")
          => (setupPc = "cold_start" /\ setupPc' = "cold_stored")
    /\ (PastColdStart /\ pending = None) =>
          /\ pending' = None
          /\ \A c \in Calls :
                (frPc[c] = "idle" /\ frPc'[c] # "idle") => frUrl'[c] = None

\* C19: only the cold-start check of setup ever writes the store: no step
\* of a single-instance callback, a retry thread, an open-URL callback or a
\* shortcut trigger changes it; so once the check is over and the store is
\* empty it stays empty, and every frontend_ready call made from then on
\* returns None, whatever is forwarded.
C19_SingleWriter == [][C19_Step]_vars

\* the stored URL was taken, URLs came in by both callbacks, and the second
\* frontend_ready call returned None from the empty store
C19_Witness ==
    /\ Running
    /\ pending = None
    /\ frPc[1] = "done" /\ frUrl[1] = Some(UrlA)
    /\ frPc[2] = "done" /\ frUrl[2] = None
    /\ Len(si) = 1 /\ si[1].retry = "done"
    /\ Len(opened) = 1 /\ Len(opened[1].emits) = 1

\* C20: the store is empty or holds a string beginning with
\* "promptvault://"; so does every value a frontend_ready call has taken or
\* returned, unless it is None, and every payload published by a
\* single-instance callback or its retry thread.
C20_SchemeOnly ==
    /\ IsSome(pending) => StartsWith(Unwrap(pending), "promptvault://")
    /\ \A k \in DOMAIN storeTrace :
          IsSome(storeTrace[k].val)
             => StartsWith(Unwrap(storeTrace[k].val), "promptvault://")
    /\ \A c \in Calls :
          IsSome(frUrl[c]) => StartsWith(Unwrap(frUrl[c]), "promptvault://")
    /\ \A e \in Publishes(si) :
          StartsWith(si[e[1]].emits[e[2]].url, "promptvault://")

\* a returned cold-start URL, a forwarded URL published three times, and a
\* forwarded argument that was rejected
C20_Witness ==
    /\ frPc[1] = "done"
    /\ frUrl[1] = Some(UrlA)
    /\ Len(si) = 2
    /\ si[1].args = <<"prog", "http://not-ours", UrlB>>
    /\ si[2].args = <<"prog", UrlB>>
    /\ Len(si[2].emits) = 3

====
